---- MODULE Spec2Model ----
(***************************************************************************)
(* A model of the rustrace path tracer: the BVH over spheres               *)
(* (hittables/bvh.rs, hit.rs, hittables/aabb.rs, hittables/primitives.rs), *)
(* the PathTracer lifecycle and its random walk (pathtracer.rs) and the    *)
(* per-pixel tasks of the render pass (renderer.rs).                       *)
(*                                                                         *)
(* f32 values are modelled exactly on inputs whose results are integers,   *)
(* together with the three special values +inf, -inf and NaN.  Inf is      *)
(* larger than every finite value of the model; NaN is a sentinel that the *)
(* operators below treat as IEEE-754 and Rust's f32::min / f32::max do.    *)
(***************************************************************************)
EXTENDS Integers, Sequences, FiniteSets, TLC

\* ------------------------------------------------------------------------
\* Bounds of the model
\* ------------------------------------------------------------------------
\* total number of add_object calls in one run of the lifecycle
MaxObjects == 3

\* ------------------------------------------------------------------------
\* Option<T>: None is the empty sequence, Some(x) the one-element sequence
\* ------------------------------------------------------------------------
None == <<>>
Some(x) == <<x>>
IsSome(o) == o # <<>>
Unwrap(o) == o[1]

\* ------------------------------------------------------------------------
\* f32 with infinities and NaN
\* ------------------------------------------------------------------------
Inf == 1000000
NInf == 0 - Inf
NaN == 9999999
\* std::f32::MAX, the largest finite value
F32MAX == Inf - 1

IsNaN(a) == a = NaN
IsInf(a) == a = Inf \/ a = NInf

FNeg(a) == IF IsNaN(a) THEN NaN ELSE 0 - a

FAdd(a, b) ==
    IF IsNaN(a) \/ IsNaN(b) THEN NaN
    ELSE IF IsInf(a) /\ IsInf(b) THEN (IF a = b THEN a ELSE NaN)
    ELSE IF IsInf(a) THEN a
    ELSE IF IsInf(b) THEN b
    ELSE a + b

FSub(a, b) == FAdd(a, FNeg(b))

Sign(a) == IF a > 0 THEN 1 ELSE IF a < 0 THEN 0 - 1 ELSE 0

FMul(a, b) ==
    IF IsNaN(a) \/ IsNaN(b) THEN NaN
    ELSE IF IsInf(a) \/ IsInf(b)
         THEN (IF a = 0 \/ b = 0 THEN NaN ELSE Sign(a) * Sign(b) * Inf)
    ELSE a * b

\* a / b.  x/0 is +-inf, 0/0 is NaN; a finite quotient is exact on the
\* inputs of the model (b divides a).
FDiv(a, b) ==
    IF IsNaN(a) \/ IsNaN(b) THEN NaN
    ELSE IF IsInf(a) /\ IsInf(b) THEN NaN
    ELSE IF IsInf(b) THEN 0
    ELSE IF b = 0 THEN (IF a = 0 THEN NaN ELSE Sign(a) * Inf)
    ELSE IF IsInf(a) THEN Sign(a) * Sign(b) * Inf
    ELSE Sign(a) * Sign(b) * ((Sign(a) * a) \div (Sign(b) * b))

\* the comparison operators are false as soon as one side is NaN
FLt(a, b) == ~IsNaN(a) /\ ~IsNaN(b) /\ a < b
FGt(a, b) == ~IsNaN(a) /\ ~IsNaN(b) /\ a > b

\* f32::min and f32::max: if one argument is NaN the other is returned
FMin(a, b) == IF IsNaN(a) THEN b ELSE IF IsNaN(b) THEN a ELSE IF a < b THEN a ELSE b
FMax(a, b) == IF IsNaN(a) THEN b ELSE IF IsNaN(b) THEN a ELSE IF a > b THEN a ELSE b

\* f32::sqrt on the perfect squares the model produces
FSqrt(a) ==
    IF IsNaN(a) \/ a < 0 THEN NaN
    ELSE IF a = Inf THEN Inf
    ELSE CHOOSE s \in 0..a : s * s <= a /\ (s + 1) * (s + 1) > a

\* ------------------------------------------------------------------------
\* Vec3 and Ray
\* ------------------------------------------------------------------------
Vec3(x, y, z) == [x |-> x, y |-> y, z |-> z]
VAdd(a, b) == Vec3(FAdd(a.x, b.x), FAdd(a.y, b.y), FAdd(a.z, b.z))
VSub(a, b) == Vec3(FSub(a.x, b.x), FSub(a.y, b.y), FSub(a.z, b.z))
VScale(k, a) == Vec3(FMul(k, a.x), FMul(k, a.y), FMul(k, a.z))
VDivS(a, k) == Vec3(FDiv(a.x, k), FDiv(a.y, k), FDiv(a.z, k))
Dot(a, b) == FAdd(FAdd(FMul(a.x, b.x), FMul(a.y, b.y)), FMul(a.z, b.z))

Ray(o, d) == [origin |-> o, direction |-> d]
\* Ray::point_at
PointAt(ray, t) == VAdd(ray.origin, VScale(t, ray.direction))

\* ------------------------------------------------------------------------
\* AABB (hittables/aabb.rs)
\* ------------------------------------------------------------------------
\* the corners stored as they are given
AABBNewAsGiven(start, end) == [start |-> start, end |-> end]

\* AABB::new
AABBNew(start, end) ==
    [start |-> Vec3(FMin(start.x, end.x), FMin(start.y, end.y), FMin(start.z, end.z)),
     end   |-> Vec3(FMax(end.x, start.x), FMax(end.y, start.y), FMax(end.z, start.z))]

\* the first box returned for both
SurroundingBoxFirst(box1, box2) == box1

\* AABB::surrounding_box
SurroundingBox(box1, box2) ==
    [start |-> Vec3(FMin(box1.start.x, box2.start.x),
                    FMin(box1.start.y, box2.start.y),
                    FMin(box1.start.z, box2.start.z)),
     end   |-> Vec3(FMax(box1.end.x, box2.end.x),
                    FMax(box1.end.y, box2.end.y),
                    FMax(box1.end.z, box2.end.z))]

LongestAxis(bb) ==
    LET dim == VSub(bb.end, bb.start)
    IN  IF FGt(dim.x, dim.y) /\ FGt(dim.x, dim.z) THEN "X"
        ELSE IF FGt(dim.y, dim.z) THEN "Y"
        ELSE "Z"

\* an axis the ray is parallel to left out of the test
SlabSkippingParallel(s, e, o, d, iv) ==
    IF d = 0 THEN iv
    ELSE LET t0 == FDiv(FSub(s, o), d)
             t1 == FDiv(FSub(e, o), d)
         IN  [lo |-> FMax(iv.lo, FMin(t0, t1)), hi |-> FMin(iv.hi, FMax(t1, t0))]

\* one slab of AABB::hit: the interval [lo, hi] clipped to the slab [s, e]
Slab(s, e, o, d, iv) ==
    LET t0 == FDiv(FSub(s, o), d)
        t1 == FDiv(FSub(e, o), d)
    IN  [lo |-> FMax(iv.lo, FMin(t0, t1)), hi |-> FMin(iv.hi, FMax(t1, t0))]

\* impl Hit for AABB :: hit
AABBHit(bb, ray, t_min, t_max) ==
    LET i0 == [lo |-> t_min, hi |-> t_max]
        i1 == Slab(bb.start.x, bb.end.x, ray.origin.x, ray.direction.x, i0)
        i2 == Slab(bb.start.y, bb.end.y, ray.origin.y, ray.direction.y, i1)
        i3 == Slab(bb.start.z, bb.end.z, ray.origin.z, ray.direction.z, i2)
    IN  IF FLt(i3.hi, i3.lo) THEN None
        ELSE Some([ray_param    |-> i3.hi,
                   hit_position |-> VAdd(ray.origin, VScale(i3.hi, ray.origin)),
                   normal       |-> Vec3(0, 0, 0),
                   material     |-> None])

\* ------------------------------------------------------------------------
\* Sphere (hittables/primitives.rs)
\* ------------------------------------------------------------------------
Sphere(c, r, m) == [center |-> c, radius |-> r, material |-> m]

SphereHit(s, ray, t_min, t_max) ==
    LET oc   == VSub(ray.origin, s.center)
        a    == Dot(ray.direction, ray.direction)
        b    == Dot(oc, ray.direction)
        c    == FSub(Dot(oc, oc), FMul(s.radius, s.radius))
        root == FSub(FMul(b, b), FMul(a, c))
        t1   == FDiv(FSub(FNeg(b), FSqrt(root)), a)
        t2   == FDiv(FAdd(FNeg(b), FSqrt(root)), a)
        t    == IF FGt(t1, t_max) \/ FLt(t1, t_min) THEN t2 ELSE t1
        pos  == PointAt(ray, t)
    IN  IF FLt(root, 0) THEN None
        ELSE IF FGt(t, t_max) \/ FLt(t, t_min) THEN None
        ELSE Some([ray_param    |-> t,
                   hit_position |-> pos,
                   normal       |-> VDivS(VSub(pos, s.center), s.radius),
                   material     |-> Some(s.material)])

SphereBoundingBox(s) ==
    Some(AABBNew(VSub(s.center, Vec3(s.radius, s.radius, s.radius)),
                 VAdd(s.center, Vec3(s.radius, s.radius, s.radius))))

SphereCenter(s) == s.center

\* ------------------------------------------------------------------------
\* impl Hit for Vec<T> (hit.rs)
\* ------------------------------------------------------------------------
RECURSIVE VecHitFrom(_, _, _, _, _, _)
\* the loop of Vec<T>::hit from element i on, with the running closest / result
VecHitFrom(list, i, ray, t_min, closest, result) ==
    IF i > Len(list) THEN result
    ELSE LET h == SphereHit(list[i], ray, t_min, closest)
         IN  IF IsSome(h)
             THEN VecHitFrom(list, i + 1, ray, t_min, Unwrap(h).ray_param, h)
             ELSE VecHitFrom(list, i + 1, ray, t_min, closest, result)

VecHit(list, ray, t_min, t_max) == VecHitFrom(list, 1, ray, t_min, t_max, None)

RECURSIVE SurroundAll(_, _, _)
\* the loop "for obj in self { bb = surrounding_box(bb, obj.bounding_box()) }"
SurroundAll(list, i, bb) ==
    IF i > Len(list) THEN bb
    ELSE SurroundAll(list, i + 1, SurroundingBox(bb, Unwrap(SphereBoundingBox(list[i]))))

VecBoundingBox(list) ==
    IF Len(list) = 0 THEN None
    ELSE IF Len(list) = 1 THEN SphereBoundingBox(list[1])
    ELSE Some(SurroundAll(list, 1, Unwrap(SphereBoundingBox(list[1]))))

\* ------------------------------------------------------------------------
\* BvhTree (hittables/bvh.rs).  Node and object indices are 0-based as in
\* the source; nodes[i] of the source is nodes[i + 1] here.
\* ------------------------------------------------------------------------
BvhNode(bb, left, count) == [bb |-> bb, left |-> left, count |-> count]

\* the centroid coordinate the comparator of build_subtree reads
SortKey(s, axis) ==
    IF axis = "X" THEN SphereCenter(s).x
    ELSE IF axis = "Y" THEN SphereCenter(s).y
    ELSE SphereCenter(s).z

IndexOrders(n) == {p \in [1..n -> 1..n] : \A i, j \in 1..n : i # j => p[i] # p[j]}

\* sort_unstable_by: every ordering of the list that is sorted by the key
\* (the order of elements with equal keys is not specified)
SortUnstableBy(list, axis) ==
    {[i \in 1..Len(list) |-> list[p[i]]] : p \in
        {q \in IndexOrders(Len(list)) :
            \A i \in 1..(Len(list) - 1) :
                SortKey(list[q[i]], axis) <= SortKey(list[q[i + 1]], axis)}}

\* where build_subtree cuts a list of 3 or more elements
SplitAt(len) == IF (len \div 2) % 2 = 0 THEN len \div 2 ELSE (len \div 2) + 1

\* every leaf pointed at the first entry of the object array
LeafLeftZero(tree) == 0

\* "let left = self.objects.len() as u32;" of a leaf
LeafLeft(tree) == Len(tree.objects)

RECURSIVE BuildSubtree(_, _, _)
\* build_subtree(&mut self, index, list): the set of possible results, each
\* Some(tree after the call) or None when the call panics
BuildSubtree(tree, index, list) ==
    LET bbo == VecBoundingBox(list)
        Built(sorted) ==
            LET len == Len(sorted)
            IN  IF len = 0 THEN {None}
                ELSE IF len = 1 THEN
                    {Some([nodes   |-> [tree.nodes EXCEPT ![index + 1].left = LeafLeft(tree),
                                                          ![index + 1].count = 1],
                           objects |-> Append(tree.objects, sorted[1])])}
                ELSE IF len = 2 THEN
                    {Some([nodes   |-> [tree.nodes EXCEPT ![index + 1].left = LeafLeft(tree),
                                                          ![index + 1].count = 2],
                           objects |-> tree.objects \o <<sorted[1], sorted[2]>>])}
                ELSE
                    LET left  == Len(tree.nodes)
                        cut   == SplitAt(len)
                        llist == SubSeq(sorted, 1, cut)
                        rlist == SubSeq(sorted, cut + 1, len)
                        t1    == [nodes   |-> [tree.nodes EXCEPT ![index + 1].left = left,
                                                                 ![index + 1].count = 0]
                                              \o <<BvhNode(Unwrap(VecBoundingBox(llist)), 0, 0),
                                                   BvhNode(Unwrap(VecBoundingBox(rlist)), 0, 0)>>,
                                  objects |-> tree.objects]
                    IN  UNION {IF r = None THEN {None}
                               ELSE BuildSubtree(Unwrap(r), left + 1, rlist)
                               : r \in BuildSubtree(t1, left, llist)}
    IN  IF bbo = None THEN {None}
        ELSE UNION {Built(sorted) : sorted \in SortUnstableBy(list, LongestAxis(Unwrap(bbo)))}

\* from_hittables returning a node-less tree for an empty list instead of
\* unwrapping the missing bounding box
FromHittablesUnchecked(list) ==
    IF Len(list) = 0 THEN {Some([nodes |-> <<>>, objects |-> <<>>])}
    ELSE BuildSubtree([nodes |-> <<BvhNode(Unwrap(VecBoundingBox(list)), 0, 0)>>,
                       objects |-> <<>>], 0, list)

\* BvhTree::from_hittables: Some(tree) for every tree the call can return,
\* None when it panics
FromHittables(list) ==
    LET bbo == VecBoundingBox(list)
    IN  IF bbo = None THEN {None}
        ELSE BuildSubtree([nodes |-> <<BvhNode(Unwrap(bbo), 0, 0)>>, objects |-> <<>>], 0, list)

\* the value that stands for a panic inside a query
Unreachable == Some([panic |-> "entered unreachable code"])

\* the match on (left_hit, right_hit) that closes hit_node
CloserOf(left_hit, right_hit) ==
    IF IsSome(left_hit) /\ IsSome(right_hit)
    THEN (IF FLt(Unwrap(left_hit).ray_param, Unwrap(right_hit).ray_param)
          THEN left_hit ELSE right_hit)
    ELSE IF IsSome(left_hit) THEN left_hit
    ELSE IF IsSome(right_hit) THEN right_hit
    ELSE None

\* the upper bound hit_node hands to the second side of a node, after the
\* first side returned left_hit: the t_max hit_node was called with
SecondSideTMax(left_hit, t_max) == t_max

RECURSIVE HitNode(_, _, _, _, _)
HitNode(tree, idx, ray, t_min, t_max) ==
    LET node == tree.nodes[idx + 1]
    IN  IF IsSome(AABBHit(node.bb, ray, t_min, t_max))
        THEN IF node.count = 1
             THEN SphereHit(tree.objects[node.left + 1], ray, t_min, t_max)
             ELSE IF node.count = 0
             THEN LET left_hit == HitNode(tree, node.left, ray, t_min, t_max)
                  IN  CloserOf(left_hit,
                               HitNode(tree, node.left + 1, ray, t_min,
                                       SecondSideTMax(left_hit, t_max)))
             ELSE IF node.count = 2
             THEN LET left_hit == SphereHit(tree.objects[node.left + 1], ray, t_min, t_max)
                  IN  CloserOf(left_hit,
                               SphereHit(tree.objects[node.left + 2], ray, t_min,
                                         SecondSideTMax(left_hit, t_max)))
             ELSE Unreachable
        ELSE None

\* what the first side of node idx returns to hit_node: the left child
\* node, or the first of the two primitives of a leaf
FirstSideHit(tree, idx, ray, t_min, t_max) ==
    LET node == tree.nodes[idx + 1]
    IN  IF node.count = 0 THEN HitNode(tree, node.left, ray, t_min, t_max)
        ELSE SphereHit(tree.objects[node.left + 1], ray, t_min, t_max)

\* impl Hit for BvhTree :: hit
BvhHit(tree, ray, t_min, t_max) == HitNode(tree, 0, ray, t_min, t_max)

\* ------------------------------------------------------------------------
\* Inputs of the model
\* ------------------------------------------------------------------------
\* the spheres a scene is made of: two touching unit spheres, a sphere with
\* negative radius on top of the first one, and a fourth one above them
Spheres ==
    {Sphere(Vec3(0, 0, 0), 1, "m1"),
     Sphere(Vec3(2, 0, 0), 1, "m2"),
     Sphere(Vec3(0, 0, 0), 0 - 1, "m3"),
     Sphere(Vec3(0, 2, 0), 1, "m4")}

\* rays along +y from below, along +x from the left, one along -x, one along +z
Rays ==
    {Ray(Vec3(x, 0 - 2, 0), Vec3(0, 1, 0)) : x \in 0..2}
    \cup {Ray(Vec3(0 - 2, y, 0), Vec3(1, 0, 0)) : y \in 0..1}
    \cup {Ray(Vec3(4, 0, 0), Vec3(0 - 1, 0, 0)), Ray(Vec3(0, 0, 0 - 2), Vec3(0, 0, 1))}

Intervals ==
    {[t_min |-> 0, t_max |-> F32MAX],
     [t_min |-> 2, t_max |-> F32MAX],
     [t_min |-> 0, t_max |-> 2]}

\* t_min = 0.0001 of the scene query of trace_color: on the integral ray
\* parameters of the model, t < 0.0001 is t < 1
TraceTMin == 1

\* ------------------------------------------------------------------------
\* PathTracer: new, add_object, finalise, render_pixel (pathtracer.rs)
\* ------------------------------------------------------------------------
VARIABLES
    objects,     \* PathTracer.objects
    bvh,         \* PathTracer.bvh : Option<BvhTree>
    panicked,    \* "" while the program runs, else the panic message
    built_from,  \* history: Some(list handed to the last from_hittables that returned)
    added,       \* history: number of add_object calls
    last_op,     \* history: the operation that produced this state
    query,       \* Some(ray, t_min, t_max) of the last BvhTree::hit
    result       \* what that BvhTree::hit returned

ptvars == <<objects, bvh, panicked, built_from, added, last_op, query, result>>

VARIABLES
    scene,              \* the object the walk queries
    ray,                \* the camera ray handed to trace_color
    ray_to_use,
    final_attenuation,
    bounces,
    out_color,
    out_albedo,
    out_normal,
    out_depth,
    pc,                 \* "idle", "loop", "exit", "done" (returned) or "panicked"
    exit,               \* history: how the loop ended, "escaped" or "cap"
    first_hit,          \* history: the first Some(hit) a scene query returned
    absorbed,           \* history: a scattered() of this walk has returned None
    queries,            \* history: number of scene queries made
    emit_terms,         \* history: number of emission terms accumulated
    color_at_exit       \* history: out_color when the loop was left

walkvars == <<scene, ray, ray_to_use, final_attenuation, bounces, out_color, out_albedo,
              out_normal, out_depth, pc, exit, first_hit, absorbed, queries, emit_terms,
              color_at_exit>>

VARIABLES
    color_buffer, albedo_buffer, normal_buffer, depth_buffer,
    frame,
    running,
    display_mode,
    incremental,      \* PathTracer.incremental
    samples,          \* PathTracer.samples
    run_pc,           \* "events", "spawn", "render" or "stopped"
    task,             \* per pixel index: the state of its render_pixel call
    draws,            \* per pixel index: the trace_color results of this pass
    accessed,         \* history: <<pixel index, buffer, element>> touched in this pass
    start_buffers,    \* history: the four buffers when the pass was spawned
    color_sum         \* history, per pixel index: the sum of the colour estimates of
                      \* the incremental passes since the last one with frame = 1

runvars == <<color_buffer, albedo_buffer, normal_buffer, depth_buffer, frame, running,
             display_mode, incremental, samples, run_pc, task, draws, accessed, start_buffers,
             color_sum>>

VARIABLES
    buf_len,        \* color_buffer.len(), the length of each of the three buffers
    thread_count,   \* pool.thread_count()
    slice_len,      \* len
    split_pos,      \* number of elements split off the front of curr_*_buf so far
    loop_i,         \* i of "for i in 0..subdiv"
    jobs,           \* the closures handed to s.execute, in order
    pool_pc         \* "idle", "loop", "wait" or "joined"

poolvars == <<buf_len, thread_count, slice_len, split_pos, loop_i, jobs, pool_pc>>

VARIABLES
    call_fn,        \* the function a geometry call applies
    call_args,      \* its arguments
    call_out,       \* Some(value returned), None before the return
    call_pc         \* "idle", "ready" or "returned"

callvars == <<call_fn, call_args, call_out, call_pc>>

\* what the operations of each component leave unchanged
ptframe == <<walkvars, runvars, poolvars, callvars>>
walkframe == <<ptvars, runvars, poolvars, callvars>>
runframe == <<ptvars, walkvars, poolvars, callvars>>
poolframe == <<ptvars, walkvars, runvars, callvars>>
callframe == <<ptvars, walkvars, runvars, poolvars>>

UnwrapNone == "called Option::unwrap() on a None value"
NotFinalised == "did not call finalise()!"

\* PathTracer::new
PtInit ==
    /\ objects = <<>>
    /\ bvh = None
    /\ panicked = ""
    /\ built_from = None
    /\ added = 0
    /\ last_op = "new"
    /\ query = None
    /\ result = None

\* PathTracer::add_object
AddObject(s) ==
    /\ panicked = ""
    /\ added < MaxObjects
    /\ objects' = Append(objects, s)
    /\ added' = added + 1
    /\ last_op' = "add_object"
    /\ UNCHANGED <<bvh, panicked, built_from, query, result>>
    /\ UNCHANGED ptframe

\* finalise keeping a copy of the list in self.objects
FinaliseKeepsObjects(objs) == objs

\* self.objects after finalise: "replace moved value with new empty value"
FinaliseObjects(objs) == <<>>

\* PathTracer::finalise
Finalise ==
    /\ panicked = ""
    /\ last_op' = "finalise"
    /\ \E r \in FromHittables(objects) :
        IF r = None
        THEN /\ panicked' = UnwrapNone
             /\ UNCHANGED <<objects, bvh, built_from>>
        ELSE /\ bvh' = Some(Unwrap(r))
             /\ objects' = FinaliseObjects(objects)
             /\ built_from' = Some(objects)
             /\ UNCHANGED panicked
    /\ UNCHANGED <<added, query, result>>
    /\ UNCHANGED ptframe

\* PathTracer::render_pixel up to the first scene query of its walk:
\* self.bvh.as_ref().expect(..), then bvh.hit(camera ray, 0.0001, f32::MAX)
RenderPixel(r) ==
    /\ panicked = ""
    /\ last_op' = "render_pixel"
    /\ IF bvh = None
       THEN /\ panicked' = NotFinalised
            /\ UNCHANGED <<query, result>>
       ELSE /\ query' = Some([ray |-> r, t_min |-> TraceTMin, t_max |-> F32MAX])
            /\ result' = BvhHit(Unwrap(bvh), r, TraceTMin, F32MAX)
            /\ UNCHANGED panicked
    /\ UNCHANGED <<objects, bvh, built_from, added>>
    /\ UNCHANGED ptframe

\* BvhTree::hit on the finalised tree, for any ray and interval
Hit(r, iv) ==
    /\ panicked = ""
    /\ bvh # None
    /\ last_op' = "hit"
    /\ query' = Some([ray |-> r, t_min |-> iv.t_min, t_max |-> iv.t_max])
    /\ result' = BvhHit(Unwrap(bvh), r, iv.t_min, iv.t_max)
    /\ UNCHANGED <<objects, bvh, panicked, built_from, added>>
    /\ UNCHANGED ptframe

\* ------------------------------------------------------------------------
\* Materials (gfx/material.rs) as the walk of trace_color sees them.  Colours
\* are Vec3 values; a pdf is kept in units of 1/pi, which cancels in brdf/pdf.
\* ------------------------------------------------------------------------
\* number of distinct rays (camera ray and scattered rays) of a walk
NumWalkRays == 2

WalkRay(i) ==
    Ray(Vec3(0, 0, i),
        IF i % 3 = 1 THEN Vec3(1, 0, 0) ELSE IF i % 3 = 2 THEN Vec3(0, 1, 0) ELSE Vec3(0, 0, 1))

WalkRays == {WalkRay(i) : i \in 1..NumWalkRays}

\* what a ray of the walk meets: nothing, a surface of one of the materials
\* (Dielectric behaves as Metal does), or a bare bounding volume (a HitResult
\* without material)
Kinds == {"none", "Lambertian", "Metal", "Emissive", "bare"}
Scenes == [1..NumWalkRays -> Kinds]

\* the texture values of the surface met by ray i
AlbedoTexture(i) ==
    Vec3(IF i % 3 = 2 THEN 0 ELSE 1, IF i % 3 = 0 THEN 0 ELSE 1, IF i % 3 = 1 THEN 0 ELSE 1)
EmittedTexture(i) == Vec3(4 + i, 4, 4)

\* the sky texture looked up through the spherical uv of a direction
SkyTexture(dir) == Vec3(2 + dir.x, 2 + dir.y, 2 + dir.z)

\* Vec3 arithmetic on colours: all values of a walk are finite
ColAdd(a, b) == [x |-> a.x + b.x, y |-> a.y + b.y, z |-> a.z + b.z]
ColMul(a, b) == [x |-> a.x * b.x, y |-> a.y * b.y, z |-> a.z * b.z]
ColScale(k, a) == [x |-> k * a.x, y |-> k * a.y, z |-> k * a.z]
ColDiv(a, k) == [x |-> a.x \div k, y |-> a.y \div k, z |-> a.z \div k]
VNeg(a) == [x |-> 0 - a.x, y |-> 0 - a.y, z |-> 0 - a.z]

\* object.hit(ray, 0.0001, f32::MAX) of the scene the walk runs in
SceneHit(sc, r) ==
    LET i == r.origin.z
    IN  IF sc[i] = "none" THEN None
        ELSE Some([ray_param    |-> i + 1,
                   hit_position |-> ColAdd(r.origin, ColScale(i + 1, r.direction)),
                   normal       |-> Vec3(i, i, i),
                   material     |-> IF sc[i] = "bare" THEN None
                                    ELSE Some([kind    |-> sc[i],
                                               albedo  |-> AlbedoTexture(i),
                                               emitted |-> EmittedTexture(i)])])

\* Material::emitted: the default is black, Emissive returns its texture
Emitted(mat, hit) ==
    IF mat.kind = "Emissive" THEN mat.emitted ELSE Vec3(0, 0, 0)

\* normal . direction of a scattered ray, in the units of the pdf
Cosine(hit, sray) == 1 + ((hit.normal.x + sray.origin.z) % 2)

\* Material::scattered: the set of possible results; Lambertian draws a
\* random direction, the other materials return None
Scattered(mat, r, hit) ==
    IF mat.kind = "Lambertian"
    THEN {Some([albedo |-> mat.albedo, normal |-> hit.normal,
                scattered_ray |-> sray, pdf |-> Cosine(hit, sray)]) : sray \in WalkRays}
    ELSE {None}

\* Material::scattering_pdf
ScatteringPdf(mat, r, hit, sray) ==
    IF mat.kind = "Lambertian"
    THEN (IF Cosine(hit, sray) < 0 THEN 0 ELSE Cosine(hit, sray))
    ELSE 0

\* ------------------------------------------------------------------------
\* PathTracer::trace_color (pathtracer.rs)
\* ------------------------------------------------------------------------
MAX_BOUNCES == 100


\* 1.0 / ray_param, kept as an exact fraction
Reciprocal(t) == [num |-> 1, den |-> t]
Zero == [num |-> 0, den |-> 1]

\* the locals of trace_color at its first loop test
WalkStart(sc, r) ==
    /\ scene = sc
    /\ ray = r
    /\ ray_to_use = r
    /\ final_attenuation = Vec3(1, 1, 1)
    /\ bounces = 0
    /\ out_color = Vec3(0, 0, 0)
    /\ out_albedo = None
    /\ out_normal = None
    /\ out_depth = None
    /\ pc = "loop"
    /\ exit = ""
    /\ first_hit = None
    /\ absorbed = FALSE
    /\ queries = 0
    /\ emit_terms = 0
    /\ color_at_exit = None

WalkInit == \E sc \in Scenes, r \in WalkRays : WalkStart(sc, r)

\* no walk is running
WalkIdle ==
    /\ scene = [i \in 1..NumWalkRays |-> "none"]
    /\ ray = WalkRay(1)
    /\ ray_to_use = WalkRay(1)
    /\ final_attenuation = Vec3(1, 1, 1)
    /\ bounces = 0
    /\ out_color = Vec3(0, 0, 0)
    /\ out_albedo = None
    /\ out_normal = None
    /\ out_depth = None
    /\ pc = "idle"
    /\ exit = ""
    /\ first_hit = None
    /\ absorbed = FALSE
    /\ queries = 0
    /\ emit_terms = 0
    /\ color_at_exit = None

\* bounces += 1 left out
BouncesStuck(b) == b

\* bounces += 1
BouncesAfter(b) == b + 1

\* the first argument of "mat.scattering_pdf(&ray, &hit, &scattered_ray)":
\* ray is the parameter of trace_color, the camera ray
PdfIncoming(camera_ray, current_ray) == camera_ray

\* the hit the loop test of this iteration obtains
CurrentHit == SceneHit(scene, ray_to_use)

\* while let Some(hit) = object.hit(..) fails: the ray escaped
WalkEscape ==
    /\ pc = "loop"
    /\ CurrentHit = None
    /\ queries' = queries + 1
    /\ pc' = "exit"
    /\ exit' = "escaped"
    /\ UNCHANGED <<scene, ray, ray_to_use, final_attenuation, bounces, out_color, out_albedo,
                   out_normal, out_depth, first_hit, absorbed, emit_terms, color_at_exit>>
    /\ UNCHANGED walkframe

\* if bounces > MAX_BOUNCES { break; }
WalkCap ==
    /\ pc = "loop"
    /\ CurrentHit # None
    /\ bounces > MAX_BOUNCES
    /\ queries' = queries + 1
    /\ first_hit' = IF first_hit = None THEN CurrentHit ELSE first_hit
    /\ pc' = "exit"
    /\ exit' = "cap"
    /\ UNCHANGED <<scene, ray, ray_to_use, final_attenuation, bounces, out_color, out_albedo,
                   out_normal, out_depth, absorbed, emit_terms, color_at_exit>>
    /\ UNCHANGED walkframe

\* a missing material treated as a default one: the walk goes on
ExpectDefaulted(material) == "loop"

\* where hit.material.as_ref().expect(..) leaves the walk
Expect(material) == IF material = None THEN "panicked" ELSE "loop"

\* hit.material.as_ref().expect(..) on a hit without material
WalkNoMaterial ==
    /\ pc = "loop"
    /\ CurrentHit # None
    /\ ~(bounces > MAX_BOUNCES)
    /\ Unwrap(CurrentHit).material = None
    /\ queries' = queries + 1
    /\ first_hit' = IF first_hit = None THEN CurrentHit ELSE first_hit
    /\ bounces' = BouncesAfter(bounces)
    /\ pc' = Expect(Unwrap(CurrentHit).material)
    /\ UNCHANGED <<scene, ray, ray_to_use, final_attenuation, out_color, out_albedo,
                   out_normal, out_depth, exit, absorbed, emit_terms, color_at_exit>>
    /\ UNCHANGED walkframe

\* one iteration of the loop body in which scattered() returns None
WalkAbsorb ==
    /\ pc = "loop"
    /\ CurrentHit # None
    /\ ~(bounces > MAX_BOUNCES)
    /\ Unwrap(CurrentHit).material # None
    /\ LET hit == Unwrap(CurrentHit)
           mat == Unwrap(hit.material)
       IN  /\ None \in Scattered(mat, ray_to_use, hit)
           /\ out_color' = ColAdd(out_color, ColMul(final_attenuation, Emitted(mat, hit)))
    /\ queries' = queries + 1
    /\ first_hit' = IF first_hit = None THEN CurrentHit ELSE first_hit
    /\ bounces' = BouncesAfter(bounces)
    /\ emit_terms' = emit_terms + 1
    /\ absorbed' = TRUE
    /\ UNCHANGED <<scene, ray, ray_to_use, final_attenuation, out_albedo, out_normal,
                   out_depth, pc, exit, color_at_exit>>
    /\ UNCHANGED walkframe

\* one iteration of the loop body in which scattered() returns Some(..)
WalkScatter ==
    /\ pc = "loop"
    /\ CurrentHit # None
    /\ ~(bounces > MAX_BOUNCES)
    /\ Unwrap(CurrentHit).material # None
    /\ LET hit == Unwrap(CurrentHit)
           mat == Unwrap(hit.material)
       IN  /\ out_color' = ColAdd(out_color, ColMul(final_attenuation, Emitted(mat, hit)))
           /\ \E so \in Scattered(mat, ray_to_use, hit) :
                /\ so # None
                /\ LET s    == Unwrap(so)
                       brdf == ColScale(ScatteringPdf(mat, PdfIncoming(ray, ray_to_use), hit,
                                                      s.scattered_ray), s.albedo)
                   IN  /\ final_attenuation' = ColMul(final_attenuation, ColDiv(brdf, s.pdf))
                       /\ ray_to_use' = s.scattered_ray
                       /\ out_albedo' = IF out_albedo = None THEN Some(s.albedo) ELSE out_albedo
                       /\ out_normal' = IF out_normal = None THEN Some(s.normal) ELSE out_normal
                       /\ out_depth' = IF out_depth = None
                                       THEN Some(Reciprocal(hit.ray_param)) ELSE out_depth
    /\ queries' = queries + 1
    /\ first_hit' = IF first_hit = None THEN CurrentHit ELSE first_hit
    /\ bounces' = BouncesAfter(bounces)
    /\ emit_terms' = emit_terms + 1
    /\ UNCHANGED <<scene, ray, pc, exit, absorbed, color_at_exit>>
    /\ UNCHANGED walkframe

\* the code after the loop: sky colour, fallbacks of the auxiliary outputs,
\* the sky term, and the return of the result tuple
WalkReturn ==
    /\ pc = "exit"
    /\ LET skycolor == SkyTexture(ray_to_use.direction)
       IN  /\ out_albedo' = IF out_albedo = None THEN Some(skycolor) ELSE out_albedo
           /\ out_normal' = IF out_normal = None
                            THEN Some(VNeg(ray_to_use.direction)) ELSE out_normal
           /\ out_depth' = IF out_depth = None THEN Some(Zero) ELSE out_depth
           /\ out_color' = ColAdd(out_color, ColMul(skycolor, final_attenuation))
    /\ color_at_exit' = Some(out_color)
    /\ pc' = "done"
    /\ UNCHANGED <<scene, ray, ray_to_use, final_attenuation, bounces, exit, first_hit,
                   absorbed, queries, emit_terms>>
    /\ UNCHANGED walkframe

\* ------------------------------------------------------------------------
\* Renderer::run and PathTracer::render_pixel (renderer.rs, pathtracer.rs).
\* Buffer elements are exact fractions.
\* ------------------------------------------------------------------------
\* number of pixels of the image (width * height) and number of passes
NumPixels == 2
MaxFrame == 3
\* largest number of events one poll of the event pump delivers
MaxEvents == 1

Pixels == 0..(NumPixels - 1)

RECURSIVE Gcd(_, _)
Gcd(a, b) == IF b = 0 THEN a ELSE Gcd(b, a % b)
Abs(a) == IF a < 0 THEN 0 - a ELSE a

\* the fraction n / d in lowest terms, d > 0
Frac(n, d) ==
    LET g == Gcd(Abs(n), Abs(d))
        sg == IF d < 0 THEN 0 - 1 ELSE 1
    IN  [num |-> sg * (n \div g), den |-> sg * (d \div g)]
RAdd(a, b) == Frac(a.num * b.den + b.num * a.den, a.den * b.den)
RMul(a, b) == Frac(a.num * b.num, a.den * b.den)
RDivInt(a, k) == Frac(a.num, a.den * k)

\* what one call of trace_color returns: (color, albedo, normal, depth)
SampleResults ==
    {[color |-> <<0, 0, 0>>, albedo |-> <<0, 1, 0>>, normal |-> <<0, 0, 1>>, depth |-> 0],
     [color |-> <<3, 1, 2>>, albedo |-> <<1, 1, 0>>, normal |-> <<0 - 1, 0, 0>>, depth |-> 1]}

Events == {"Quit", "Camera", "Display", "Other"}


BufferNames == {"color", "albedo", "normal", "depth"}

Buffers == [color |-> color_buffer, albedo |-> albedo_buffer,
            normal |-> normal_buffer, depth |-> depth_buffer]

\* vec![0f32; width * height * 3]
ZeroBuffer == [e \in 1..(NumPixels * 3) |-> Frac(0, 1)]

Idle == [pc |-> "idle"]

\* samples as PathTracer::new stores it
NewSamples(requested, incr) == IF incr THEN 1 ELSE requested

\* Renderer::new followed by run()'s "self.running = true"
RunStart(requested, incr) ==
    /\ color_buffer = ZeroBuffer
    /\ albedo_buffer = ZeroBuffer
    /\ normal_buffer = ZeroBuffer
    /\ depth_buffer = ZeroBuffer
    /\ frame = 1
    /\ running = TRUE
    /\ display_mode = "Denoised"
    /\ incremental = incr
    /\ samples = NewSamples(requested, incr)
    /\ run_pc = "events"
    /\ task = [i \in Pixels |-> Idle]
    /\ draws = [i \in Pixels |-> <<>>]
    /\ accessed = {}
    /\ start_buffers = None
    /\ color_sum = [i \in Pixels |-> <<0, 0, 0>>]

RunInit == \E requested \in 1..2, incr \in BOOLEAN : RunStart(requested, incr)

\* the renderer is not running
RunIdle ==
    /\ color_buffer = ZeroBuffer
    /\ albedo_buffer = ZeroBuffer
    /\ normal_buffer = ZeroBuffer
    /\ depth_buffer = ZeroBuffer
    /\ frame = 1
    /\ running = FALSE
    /\ display_mode = "Denoised"
    /\ incremental = FALSE
    /\ samples = 1
    /\ run_pc = "stopped"
    /\ task = [i \in Pixels |-> Idle]
    /\ draws = [i \in Pixels |-> <<>>]
    /\ accessed = {}
    /\ start_buffers = None
    /\ color_sum = [i \in Pixels |-> <<0, 0, 0>>]

\* the effect of one event of handle_sdl_events on (running, frame, display_mode)
OnEvent(st, ev) ==
    IF ev = "Quit" THEN [st EXCEPT !.running = FALSE]
    ELSE IF ev = "Camera" THEN [st EXCEPT !.frame = 1]
    ELSE IF ev = "Display" THEN [st EXCEPT !.display_mode = "Color"]
    ELSE st

RECURSIVE OnEvents(_, _)
OnEvents(st, evs) ==
    IF evs = <<>> THEN st ELSE OnEvents(OnEvent(st, Head(evs)), Tail(evs))

EventLists == UNION {[1..n -> Events] : n \in 0..MaxEvents}

\* Renderer::handle_sdl_events, at the top of the loop body
HandleSdlEvents ==
    /\ run_pc = "events"
    /\ running
    /\ \E evs \in EventLists :
        LET st == OnEvents([running |-> running, frame |-> frame,
                            display_mode |-> display_mode], evs)
        IN  /\ running' = st.running
            /\ frame' = st.frame
            /\ display_mode' = st.display_mode
    /\ run_pc' = "spawn"
    /\ UNCHANGED <<color_buffer, albedo_buffer, normal_buffer, depth_buffer, incremental,
                   samples, task, draws, accessed, start_buffers, color_sum>>
    /\ UNCHANGED runframe

\* par_chunks_mut(3).enumerate()...for_each_init: one task per pixel index;
\* the random draws of each pixel's walks are fixed here
SpawnTasks ==
    /\ run_pc = "spawn"
    /\ frame <= MaxFrame
    /\ draws' \in [Pixels -> [1..samples -> SampleResults]]
    /\ task' = [i \in Pixels |-> [pc |-> "ready"]]
    /\ accessed' = {}
    /\ start_buffers' = Some(Buffers)
    /\ run_pc' = "render"
    /\ UNCHANGED <<color_buffer, albedo_buffer, normal_buffer, depth_buffer, frame, running,
                   display_mode, incremental, samples, color_sum>>
    /\ UNCHANGED runframe

\* all chunks starting at the pixel index itself
ChunkStartUnscaled(index) == index

\* the first buffer element (0-based) of the chunk par_chunks_mut(3) pairs
\* with the enumeration index
ChunkStart(index) == 3 * index

\* elements [0], [1], [2] of the chunk of a buffer, as the task reads them
ChunkOf(buf, index) == [k \in 1..3 |-> buf[ChunkStart(index) + k]]

RECURSIVE SumSamples(_, _, _)
\* the multisample loop: component c of field f summed over the samples
SumSamples(ds, f, c) ==
    IF ds = <<>> THEN 0
    ELSE (IF f = "depth" THEN Head(ds).depth ELSE Head(ds)[f][c]) + SumSamples(Tail(ds), f, c)

\* final_<f> /= samples
Averaged(ds, f, n) == [c \in 1..3 |-> Frac(SumSamples(ds, f, c), n)]

\* the estimate of the pass stored as it is
FinalValuesReplacing(ds, f, n, incr, fr, chunk) == Averaged(ds, f, n)

\* the three values render_pixel stores into the chunk of buffer f
FinalValues(ds, f, n, incr, fr, chunk) ==
    LET avg == Averaged(ds, f, n)
        k   == Frac(1, fr)
        km1 == Frac(fr - 1, fr)
    IN  IF ~incr THEN avg
        ELSE IF f = "depth"
        THEN [c \in 1..3 |-> RAdd(RMul(chunk[1], km1), RMul(avg[1], k))]
        ELSE [c \in 1..3 |-> RAdd(RMul(chunk[c], km1), RMul(avg[c], k))]

\* render_pixel up to the stores: the walks, the average, and in incremental
\* mode the reads of the four chunks and the blend
TaskCompute(i) ==
    /\ run_pc = "render"
    /\ task[i].pc = "ready"
    /\ task' = [task EXCEPT ![i] =
                 [pc |-> "computed",
                  final |-> [f \in BufferNames |->
                               FinalValues(draws[i], f, samples, incremental, frame,
                                           ChunkOf(Buffers[f], i))]]]
    /\ accessed' = IF incremental
                   THEN accessed \cup {<<i, f, ChunkStart(i) + k>> : f \in BufferNames, k \in 0..2}
                   ELSE accessed
    /\ UNCHANGED <<color_buffer, albedo_buffer, normal_buffer, depth_buffer, frame, running,
                   display_mode, incremental, samples, run_pc, draws, start_buffers, color_sum>>
    /\ UNCHANGED runframe

\* a buffer after the task of index i stored vals into its chunk
Stored(buf, i, vals) ==
    [e \in DOMAIN buf |->
        IF e - 1 \in ChunkStart(i)..(ChunkStart(i) + 2) THEN vals[e - ChunkStart(i)] ELSE buf[e]]

\* the twelve stores that end render_pixel
TaskStore(i) ==
    /\ run_pc = "render"
    /\ task[i].pc = "computed"
    /\ color_buffer' = Stored(color_buffer, i, task[i].final["color"])
    /\ albedo_buffer' = Stored(albedo_buffer, i, task[i].final["albedo"])
    /\ normal_buffer' = Stored(normal_buffer, i, task[i].final["normal"])
    /\ depth_buffer' = Stored(depth_buffer, i, task[i].final["depth"])
    /\ task' = [task EXCEPT ![i] = [pc |-> "done"]]
    /\ accessed' = accessed \cup {<<i, f, ChunkStart(i) + k>> : f \in BufferNames, k \in 0..2}
    /\ color_sum' = IF incremental
                    THEN [color_sum EXCEPT ![i] =
                            [c \in 1..3 |-> (IF frame = 1 THEN 0 ELSE color_sum[i][c])
                                            + SumSamples(draws[i], "color", c)]]
                    ELSE color_sum
    /\ UNCHANGED <<frame, running, display_mode, incremental, samples, run_pc, draws,
                   start_buffers>>
    /\ UNCHANGED runframe

\* the rest of the loop body once for_each has returned: denoise, present,
\* "self.frame += 1", and the loop test "while self.running"
EndPass ==
    /\ run_pc = "render"
    /\ \A i \in Pixels : task[i].pc = "done"
    /\ frame' = frame + 1
    /\ run_pc' = IF running THEN "events" ELSE "stopped"
    /\ task' = [i \in Pixels |-> Idle]
    /\ UNCHANGED <<color_buffer, albedo_buffer, normal_buffer, depth_buffer, running,
                   display_mode, incremental, samples, draws, accessed, start_buffers, color_sum>>
    /\ UNCHANGED runframe

\* ------------------------------------------------------------------------
\* Plane (hittables/primitives.rs), the Triangle of a mesh (hittables/mesh.rs)
\* and Vec3::reflect (vec3.rs)
\* ------------------------------------------------------------------------
Cross(a, b) ==
    Vec3(FSub(FMul(a.y, b.z), FMul(a.z, b.y)),
         FSub(FMul(a.z, b.x), FMul(a.x, b.z)),
         FSub(FMul(a.x, b.y), FMul(a.y, b.x)))

\* Vec3::len
VLen(a) == FSqrt(FAdd(FAdd(FMul(a.x, a.x), FMul(a.y, a.y)), FMul(a.z, a.z)))

\* Vec3::normalised: x / len, y / len, z / len
Normalised(a) == VDivS(a, VLen(a))

Plane(c, sa, sb, m) == [center |-> c, span_a |-> sa, span_b |-> sb, material |-> m]

\* the quotient l / (2.0 * m) of two finite lengths, as an exact fraction
HalfRatio(l, m) == Frac(l, 2 * m)

\* "if u > 1.0 { u = u.fract(); }"
Wrapped(u) == IF u.num > u.den THEN Frac(u.num % u.den, u.den) ELSE u

\* impl Hit for Plane :: hit.  hit_outside_bounds is set when u or v exceeds 1
\* and is not read again.
PlaneHit(pl, r, t_min, t_max) ==
    LET normal        == Normalised(Cross(pl.span_a, pl.span_b))
        parameter     == FDiv(FNeg(Dot(VSub(r.origin, pl.center), normal)),
                              Dot(r.direction, normal))
        hit_position  == VAdd(r.origin, VScale(parameter, r.direction))
        llc           == VSub(VSub(pl.center, pl.span_a), pl.span_b)
        relative_hit  == VSub(hit_position, llc)
        a_normalised  == Normalised(pl.span_a)
        b_normalised  == Normalised(pl.span_b)
        hit_on_span_a == VSub(relative_hit, VScale(Dot(relative_hit, b_normalised), b_normalised))
        hit_on_span_b == VSub(relative_hit, VScale(Dot(relative_hit, a_normalised), a_normalised))
        u             == HalfRatio(VLen(hit_on_span_a), VLen(pl.span_a))
        v             == HalfRatio(VLen(hit_on_span_b), VLen(pl.span_b))
    IN  IF FLt(parameter, t_min) \/ FGt(parameter, t_max) THEN None
        ELSE Some([ray_param    |-> parameter,
                   hit_position |-> hit_position,
                   normal       |-> normal,
                   material     |-> Some(pl.material),
                   uv_coords    |-> <<Wrapped(u), Wrapped(v)>>])

\* a mesh triangle whose vertices carry neither normals nor uv coordinates
Triangle(a, b, c, m) == [a |-> a, b |-> b, c |-> c, material |-> m]

\* impl Hit for Triangle :: hit (mesh.rs)
TriangleHit(tri, r, t_min, t_max) ==
    LET span_a       == VSub(tri.b, tri.a)
        span_b       == VSub(tri.c, tri.a)
        tri_normal   == Normalised(Cross(span_a, span_b))
        parameter    == FDiv(FNeg(Dot(VSub(r.origin, tri.a), tri_normal)),
                             Dot(r.direction, tri_normal))
        hit_position == PointAt(r, parameter)
        relative_hit == VSub(hit_position, tri.a)
        ada          == Dot(span_a, span_a)
        bdb          == Dot(span_b, span_b)
        rda          == Dot(relative_hit, span_a)
        rdb          == Dot(relative_hit, span_b)
        adb          == Dot(span_a, span_b)
        denom        == FDiv(1, FSub(FMul(adb, adb), FMul(ada, bdb)))
        alpha        == FMul(FSub(FMul(adb, rdb), FMul(bdb, rda)), denom)
        beta         == FMul(FSub(FMul(adb, rda), FMul(ada, rdb)), denom)
    IN  IF FLt(parameter, t_min) \/ FGt(parameter, t_max) THEN None
        ELSE IF FLt(alpha, 0) \/ FLt(beta, 0) \/ FGt(FAdd(alpha, beta), 1) THEN None
        ELSE Some([ray_param    |-> parameter,
                   hit_position |-> hit_position,
                   normal       |-> tri_normal,
                   material     |-> Some(tri.material),
                   uv_coords    |-> <<alpha, beta>>])

\* vectors of exact fractions
RVec(a) == [x |-> Frac(a.x, 1), y |-> Frac(a.y, 1), z |-> Frac(a.z, 1)]
RNeg(a) == Frac(0 - a.num, a.den)
RDot(a, b) == RAdd(RAdd(RMul(a.x, b.x), RMul(a.y, b.y)), RMul(a.z, b.z))
RScale(k, a) == [x |-> RMul(k, a.x), y |-> RMul(k, a.y), z |-> RMul(k, a.z)]
RSub(a, b) == [x |-> RAdd(a.x, RNeg(b.x)), y |-> RAdd(a.y, RNeg(b.y)), z |-> RAdd(a.z, RNeg(b.z))]

\* the normal used as it is given
ReflectNormalAsGiven(n) == RVec(n)

\* "let normal = normal.normalised();" for a normal of integral length
ReflectNormal(n) ==
    [x |-> Frac(n.x, VLen(n)), y |-> Frac(n.y, VLen(n)), z |-> Frac(n.z, VLen(n))]

\* Vec3::reflect: *self - 2.0 * self.dot(normal) * normal
Reflect(v, n) ==
    LET normal == ReflectNormal(n)
    IN  RSub(RVec(v), RScale(RMul(Frac(2, 1), RDot(RVec(v), normal)), normal))

\* Vec3::cross on vectors of exact fractions
RCross(a, b) ==
    [x |-> RAdd(RMul(a.y, b.z), RNeg(RMul(a.z, b.y))),
     y |-> RAdd(RMul(a.z, b.x), RNeg(RMul(a.x, b.z))),
     z |-> RAdd(RMul(a.x, b.y), RNeg(RMul(a.y, b.x)))]

\* ONB::from_w (math/onb.rs)
ONBFromW(w) ==
    LET temp == [x |-> w.y, y |-> w.z, z |-> w.x]
        u    == RCross(w, temp)
        v    == RCross(w, u)
    IN  [u |-> u, v |-> v, w |-> w]

\* ONB::to_local: n.x * u + n.y * v + n.z * w
ToLocal(onb, n) ==
    RSub(RSub(RScale(n.z, onb.w), RScale(RNeg(n.y), onb.v)), RScale(RNeg(n.x), onb.u))

\* "-(1.0 / self.density) * rand::random::<f32>().ln()": distances the random
\* draw can give; a draw of 0.0 gives +inf
HitDistances == {1, 3, Inf}

\* impl Hit for ConstantVolume :: hit (hittables/volume.rs) with a sphere as
\* boundary: the set of results the random draw allows.  The parameters
\* t_min and t_max are shadowed by f32::MIN and f32::MAX in the first line of
\* the body; adding 0.0001 to a ray parameter gives the next parameter of the
\* model.
VolumeHit(boundary, material, r, t_min, t_max) ==
    LET lo   == 0 - F32MAX
        hi   == F32MAX
        hit1 == SphereHit(boundary, r, lo, hi)
        lo2  == FAdd(Unwrap(hit1).ray_param, TraceTMin)
        hit2 == SphereHit(boundary, r, lo2, hi)
        t1   == FMax(Unwrap(hit1).ray_param, lo2)
        t2   == FMin(Unwrap(hit2).ray_param, hi)
        t1b  == FMax(Unwrap(hit1).ray_param, 0)
    IN  IF hit1 = None THEN {None}
        ELSE IF hit2 = None THEN {None}
        ELSE IF FGt(t1, t2) THEN {None}
        ELSE {IF FLt(hit_distance, FSub(t2, t1b))
              THEN Some([ray_param    |-> FAdd(t1b, hit_distance),
                         hit_position |-> PointAt(r, FAdd(t1b, hit_distance)),
                         normal       |-> Vec3(0, 0, 0),
                         material     |-> Some(material)])
              ELSE None : hit_distance \in HitDistances}

\* impl Hit for Plane :: bounding_box
PlaneBoundingBox(pl) ==
    Some(AABBNew(VSub(VSub(pl.center, pl.span_a), pl.span_b),
                 VAdd(VAdd(pl.center, pl.span_a), pl.span_b)))

\* impl Hit for Triangle :: bounding_box (mesh.rs)
TriangleBoundingBox(tri) ==
    Some(AABBNew(Vec3(FMin(FMin(tri.a.x, tri.b.x), tri.c.x),
                      FMin(FMin(tri.a.y, tri.b.y), tri.c.y),
                      FMin(FMin(tri.a.z, tri.b.z), tri.c.z)),
                 Vec3(FMax(FMax(tri.a.x, tri.b.x), tri.c.x),
                      FMax(FMax(tri.a.y, tri.b.y), tri.c.y),
                      FMax(FMax(tri.a.z, tri.b.z), tri.c.z))))

\* T::hit and T::bounding_box of the trait Hit, by the kind of primitive
PrimHit(p, r, t_min, t_max) ==
    IF "span_a" \in DOMAIN p THEN PlaneHit(p, r, t_min, t_max)
    ELSE IF "radius" \in DOMAIN p THEN SphereHit(p, r, t_min, t_max)
    ELSE TriangleHit(p, r, t_min, t_max)

PrimBoundingBox(p) ==
    IF "span_a" \in DOMAIN p THEN PlaneBoundingBox(p)
    ELSE IF "radius" \in DOMAIN p THEN SphereBoundingBox(p)
    ELSE TriangleBoundingBox(p)

\* BvhTree::from_hittables(vec![p]): the root is a leaf that holds p
LeafTree(p) == [nodes |-> <<BvhNode(Unwrap(PrimBoundingBox(p)), 0, 1)>>, objects |-> <<p>>]

\* hit_node on a leaf with count = 1
LeafHitNode(tree, idx, r, t_min, t_max) ==
    LET node == tree.nodes[idx + 1]
    IN  IF IsSome(AABBHit(node.bb, r, t_min, t_max))
        THEN PrimHit(tree.objects[node.left + 1], r, t_min, t_max)
        ELSE None

\* ------------------------------------------------------------------------
\* The thread-pool render loop of main (main.rs): the three buffers are cut
\* into one slice per pool thread.
\* ------------------------------------------------------------------------
\* largest image (in pixels) and largest pool of the model
MaxPoolPixels == 4
MaxThreads == 4

\* no partition is running
PoolIdle ==
    /\ buf_len = 0
    /\ thread_count = 1
    /\ slice_len = 0
    /\ split_pos = 0
    /\ loop_i = 0
    /\ jobs = <<>>
    /\ pool_pc = "idle"

\* let subdiv = pool.thread_count(); let len = color_buffer.len() / subdiv;
PoolStart(pixels, threads) ==
    /\ buf_len = pixels * 3
    /\ thread_count = threads
    /\ slice_len = (pixels * 3) \div threads
    /\ split_pos = 0
    /\ loop_i = 0
    /\ jobs = <<>>
    /\ pool_pc = "loop"

\* buffers of WIDTH * HEIGHT * 3 floats and a Pool of at least one thread
PoolInit == \E pixels \in 1..MaxPoolPixels, threads \in 1..MaxThreads : PoolStart(pixels, threads)

\* the slice one split_at_mut(len) takes off the front of the current buffers
SplitOff(pos, len) == [start |-> pos, len |-> len]

\* one iteration of "for i in 0..subdiv": the three split_at_mut(len) and
\* s.execute(..) with offset i * len
PoolSplit ==
    /\ pool_pc = "loop"
    /\ loop_i < thread_count
    /\ slice_len <= buf_len - split_pos
    /\ jobs' = Append(jobs, [slice  |-> SplitOff(split_pos, slice_len),
                             offset |-> loop_i * slice_len,
                             done   |-> FALSE])
    /\ split_pos' = split_pos + slice_len
    /\ loop_i' = loop_i + 1
    /\ UNCHANGED <<buf_len, thread_count, slice_len, pool_pc>>
    /\ UNCHANGED poolframe

\* the for loop ends; pool.scoped waits for the workers
PoolLoopEnd ==
    /\ pool_pc = "loop"
    /\ loop_i = thread_count
    /\ pool_pc' = "wait"
    /\ UNCHANGED <<buf_len, thread_count, slice_len, split_pos, loop_i, jobs>>
    /\ UNCHANGED poolframe

\* a pool thread runs the closure of job j: draw_image renders its slices
PoolExecute(j) ==
    /\ pool_pc \in {"loop", "wait"}
    /\ j \in DOMAIN jobs
    /\ ~jobs[j].done
    /\ jobs' = [jobs EXCEPT ![j].done = TRUE]
    /\ UNCHANGED <<buf_len, thread_count, slice_len, split_pos, loop_i, pool_pc>>
    /\ UNCHANGED poolframe

\* pool.scoped returns once every job has run
PoolJoin ==
    /\ pool_pc = "wait"
    /\ \A j \in DOMAIN jobs : jobs[j].done
    /\ pool_pc' = "joined"
    /\ UNCHANGED <<buf_len, thread_count, slice_len, split_pos, loop_i, jobs>>
    /\ UNCHANGED poolframe

\* no geometry call is running
CallIdle ==
    /\ call_fn = ""
    /\ call_args = <<>>
    /\ call_out = None
    /\ call_pc = "idle"

\* ------------------------------------------------------------------------
\* Single calls of the geometry functions on drawn arguments
\* ------------------------------------------------------------------------
\* f32 coordinates: finite values, the infinities and NaN
CornerValues == {NInf, 0 - 2, 1, Inf, NaN}
Corners == {Vec3(x, y, 1) : x, y \in CornerValues}

\* boxes as AABB::new returns them for corners without NaN
BoxCorners == {Vec3(x, y, 1) : x \in {NInf, 0 - 2, 1, Inf}, y \in {0 - 2, 1}}
Boxes == {AABBNew(a, b) : a, b \in BoxCorners}

\* the unit cube around the origin and rays around it, among them rays
\* parallel to one, two or three of its slabs
HitBoxes == {AABBNew(Vec3(0 - 1, 0 - 1, 0 - 1), Vec3(1, 1, 1))}
SlabRays ==
    {Ray(Vec3(x, y, 0), Vec3(dx, dy, dz)) :
        x, y \in {0 - 3, 0 - 1, 0, 3}, dx, dy, dz \in {0 - 1, 0, 1}}
TValues == {NInf, 0 - F32MAX, 0, 2, F32MAX, Inf}
SlabIntervals == {iv \in [t_min : TValues, t_max : TValues] : iv.t_min <= iv.t_max}

\* two rectangles and rays that cross their planes inside and outside of them
Planes ==
    {Plane(Vec3(0, 0, 0), Vec3(2, 0, 0), Vec3(0, 2, 0), "m1"),
     Plane(Vec3(0, 0, 0), Vec3(0, 1, 0), Vec3(0, 0, 3), "m2")}
PlaneRays ==
    {Ray(Vec3(x, y, 0 - 2), Vec3(1, 0, 1)) : x \in {0 - 8, 0 - 4, 0 - 2, 0, 4}, y \in {0 - 3, 0, 1, 3}}
PlaneIntervals == {[t_min |-> 0, t_max |-> F32MAX], [t_min |-> 1, t_max |-> 3]}

\* a right triangle with unit legs, and triangles with coincident or
\* collinear vertices
Triangles ==
    {Triangle(Vec3(0, 0, 0), Vec3(1, 0, 0), Vec3(0, 1, 0), "m1"),
     Triangle(Vec3(1, 1, 0), Vec3(1, 1, 0), Vec3(1, 1, 0), "m2"),
     Triangle(Vec3(0, 0, 0), Vec3(0, 0, 0), Vec3(0, 1, 0), "m3"),
     Triangle(Vec3(0, 0, 0), Vec3(1, 0, 0), Vec3(2, 0, 0), "m4")}
TriangleRays ==
    {Ray(Vec3(x, y, 0 - 2), Vec3(0, 0, dz)) : x, y \in {0 - 1, 0, 1, 2}, dz \in {0 - 1, 0, 1}}

\* rays against the spheres: those of the scene queries and rays whose
\* direction is the zero vector
SphereRays == Rays \cup {Ray(Vec3(x, 0, 0), Vec3(0, 0, 0)) : x \in {0 - 2, 0, 1}}
HitIntervals == {[t_min |-> TraceTMin, t_max |-> F32MAX], [t_min |-> 0, t_max |-> 2]}

\* vectors to reflect, and normals of integral length
ReflectVectors == {Vec3(0 - 1, 0 - 1, 0), Vec3(1, 2, 3), Vec3(5, 0, 0 - 5), Vec3(0, 0, 0)}
ReflectNormals ==
    {Vec3(0, 1, 0), Vec3(0, 2, 0), Vec3(0, 0 - 1, 0), Vec3(3, 0, 0), Vec3(3, 4, 0),
     Vec3(6, 8, 0), Vec3(0, 0 - 3, 4), Vec3(1, 2, 2)}

\* the vector (x, y, z) / d
RVecOver(x, y, z, d) == [x |-> Frac(x, d), y |-> Frac(y, d), z |-> Frac(z, d)]

\* vectors of length 1 with rational components
UnitVectors ==
    {RVecOver(1, 0, 0, 1), RVecOver(0, 1, 0, 1), RVecOver(0, 0, 0 - 1, 1),
     RVecOver(3, 4, 0, 5), RVecOver(0, 0 - 3, 4, 5), RVecOver(4, 0, 3, 5),
     RVecOver(1, 2, 2, 3), RVecOver(2, 3, 6, 7)}

\* a primitive of each kind in a tree of its own, and the rays sent at it
LeafQueries ==
    {[prim |-> pl, r |-> r] : pl \in Planes, r \in PlaneRays}
    \cup {[prim |-> tri, r |-> r] : tri \in Triangles, r \in TriangleRays}
    \cup {[prim |-> sp, r |-> r] : sp \in Spheres, r \in SphereRays}

CallStart(fn, args) ==
    /\ call_fn = fn
    /\ call_args = args
    /\ call_out = None
    /\ call_pc = "ready"

CallInit ==
    \/ \E a, b \in Corners : CallStart("AABB::new", [start |-> a, end |-> b])
    \/ \E s \in Spheres : CallStart("Sphere::bounding_box", [sphere |-> s])
    \/ \E a, b \in Boxes : CallStart("AABB::surrounding_box", [box1 |-> a, box2 |-> b])
    \/ \E b \in HitBoxes, r \in SlabRays, iv \in SlabIntervals :
            CallStart("AABB::hit", [bb |-> b, r |-> r, t_min |-> iv.t_min, t_max |-> iv.t_max])
    \/ \E pl \in Planes, r \in PlaneRays, iv \in PlaneIntervals :
            CallStart("Plane::hit", [plane |-> pl, r |-> r, t_min |-> iv.t_min, t_max |-> iv.t_max])
    \/ \E tri \in Triangles, r \in TriangleRays, iv \in HitIntervals :
            CallStart("Triangle::hit", [tri |-> tri, r |-> r, t_min |-> iv.t_min, t_max |-> iv.t_max])
    \/ \E s \in Spheres, r \in SphereRays, iv \in HitIntervals :
            CallStart("Sphere::hit", [sphere |-> s, r |-> r, t_min |-> iv.t_min, t_max |-> iv.t_max])
    \/ \E v \in ReflectVectors, n \in ReflectNormals :
            CallStart("Vec3::reflect", [v |-> v, n |-> n])
    \/ \E w \in UnitVectors : CallStart("ONB::from_w", [w |-> w])
    \/ \E s \in Spheres, r \in Rays, iv \in HitIntervals :
            CallStart("ConstantVolume::hit", [boundary |-> s, r |-> r,
                                              t_min |-> iv.t_min, t_max |-> iv.t_max])
    \/ \E q \in LeafQueries, iv \in HitIntervals :
            CallStart("BvhTree::hit", [tree |-> LeafTree(q.prim), r |-> q.r,
                                       t_min |-> iv.t_min, t_max |-> iv.t_max])

\* the call of fn returns value
CallReturns(fn, value) ==
    /\ call_pc = "ready"
    /\ call_fn = fn
    /\ call_out' = Some(value)
    /\ call_pc' = "returned"
    /\ UNCHANGED <<call_fn, call_args>>
    /\ UNCHANGED callframe

CallAABBNew ==
    /\ call_fn = "AABB::new"
    /\ CallReturns("AABB::new", AABBNew(call_args.start, call_args.end))

CallSphereBoundingBox ==
    /\ call_fn = "Sphere::bounding_box"
    /\ CallReturns("Sphere::bounding_box", SphereBoundingBox(call_args.sphere))

CallSurroundingBox ==
    /\ call_fn = "AABB::surrounding_box"
    /\ CallReturns("AABB::surrounding_box", SurroundingBox(call_args.box1, call_args.box2))

CallAABBHit ==
    /\ call_fn = "AABB::hit"
    /\ CallReturns("AABB::hit",
                   AABBHit(call_args.bb, call_args.r, call_args.t_min, call_args.t_max))

CallPlaneHit ==
    /\ call_fn = "Plane::hit"
    /\ CallReturns("Plane::hit",
                   PlaneHit(call_args.plane, call_args.r, call_args.t_min, call_args.t_max))

CallTriangleHit ==
    /\ call_fn = "Triangle::hit"
    /\ CallReturns("Triangle::hit",
                   TriangleHit(call_args.tri, call_args.r, call_args.t_min, call_args.t_max))

CallSphereHit ==
    /\ call_fn = "Sphere::hit"
    /\ CallReturns("Sphere::hit",
                   SphereHit(call_args.sphere, call_args.r, call_args.t_min, call_args.t_max))

CallReflect ==
    /\ call_fn = "Vec3::reflect"
    /\ CallReturns("Vec3::reflect", Reflect(call_args.v, call_args.n))

CallFromW ==
    /\ call_fn = "ONB::from_w"
    /\ CallReturns("ONB::from_w", ONBFromW(call_args.w))

CallVolumeHit ==
    /\ call_fn = "ConstantVolume::hit"
    /\ \E h \in VolumeHit(call_args.boundary, "fog", call_args.r,
                           call_args.t_min, call_args.t_max) :
            CallReturns("ConstantVolume::hit", h)

CallBvhHit ==
    /\ call_fn = "BvhTree::hit"
    /\ CallReturns("BvhTree::hit",
                   LeafHitNode(call_args.tree, 0, call_args.r, call_args.t_min, call_args.t_max))

PtAddObject == \E s \in Spheres : AddObject(s)
PtRenderPixel == \E r \in Rays : RenderPixel(r)
PtHit == \E r \in Rays, iv \in Intervals : Hit(r, iv)

vars == <<ptvars, walkvars, runvars, poolvars, callvars>>

\* the lifecycle of one PathTracer
Next == PtAddObject \/ Finalise \/ PtRenderPixel

\* a new PathTracer; no walk and no render loop running
Init == PtInit /\ WalkIdle /\ RunIdle /\ PoolIdle /\ CallIdle

Spec == Init /\ [][Next]_vars

RECURSIVE ListsOfLen(_)
ListsOfLen(n) ==
    IF n = 0 THEN {<<>>}
    ELSE {Append(l, s) : l \in ListsOfLen(n - 1), s \in Spheres}

\* a PathTracer to which between 1 and MaxObjects spheres have been added
BvhInit ==
    /\ \E n \in 1..MaxObjects : objects \in ListsOfLen(n) /\ added = n
    /\ bvh = None
    /\ panicked = ""
    /\ built_from = None
    /\ last_op = "add_object"
    /\ query = None
    /\ result = None

\* building the tree over a list of spheres and querying it
BvhNext == Finalise \/ PtHit

InitBvh == BvhInit /\ WalkIdle /\ RunIdle /\ PoolIdle /\ CallIdle

SpecBvh == InitBvh /\ [][BvhNext]_vars

\* one walk of trace_color
WalkNext == WalkEscape \/ WalkCap \/ WalkNoMaterial \/ WalkAbsorb \/ WalkScatter \/ WalkReturn

\* one call of trace_color on some scene and camera ray
InitWalk == PtInit /\ WalkInit /\ RunIdle /\ PoolIdle /\ CallIdle

SpecWalk == InitWalk /\ [][WalkNext]_vars

\* the loop of trace_color is sequential code: it keeps running until it returns
SpecWalkFair == SpecWalk /\ WF_vars(WalkNext)

TaskComputeSome == \E i \in Pixels : TaskCompute(i)
TaskStoreSome == \E i \in Pixels : TaskStore(i)

\* the main loop of Renderer::run
RunNext == HandleSdlEvents \/ SpawnTasks \/ TaskComputeSome \/ TaskStoreSome \/ EndPass

\* a Renderer entering run()
InitRun == PtInit /\ WalkIdle /\ RunInit /\ PoolIdle /\ CallIdle

SpecRun == InitRun /\ [][RunNext]_vars

PoolExecuteSome == \E j \in 1..MaxThreads : PoolExecute(j)

\* one frame of the thread-pool render loop
PoolNext == PoolSplit \/ PoolLoopEnd \/ PoolExecuteSome \/ PoolJoin

InitPool == PtInit /\ WalkIdle /\ RunIdle /\ PoolInit /\ CallIdle

SpecPool == InitPool /\ [][PoolNext]_vars

\* one call of one of the geometry functions
CallNext ==
    \/ CallAABBNew \/ CallSphereBoundingBox \/ CallSurroundingBox \/ CallAABBHit
    \/ CallPlaneHit \/ CallTriangleHit \/ CallSphereHit \/ CallReflect
    \/ CallBvhHit \/ CallFromW \/ CallVolumeHit

InitCall == PtInit /\ WalkIdle /\ RunIdle /\ PoolIdle /\ CallInit

SpecCall == InitCall /\ [][CallNext]_vars

\* ------------------------------------------------------------------------
\* Properties
\* ------------------------------------------------------------------------
Range(seq) == {seq[i] : i \in DOMAIN seq}
CountIn(seq, x) == Cardinality({i \in DOMAIN seq : seq[i] = x})
SameElements(a, b) == \A x \in Range(a) \cup Range(b) : CountIn(a, x) = CountIn(b, x)

\* C1: BvhTree::hit on the tree built by from_hittables returns what the
\* linear scan over the same list returns: None in the same cases, otherwise
\* the same ray_param, the same hit position and the same material.
BvhEqualsLinearScan ==
    (query # None /\ built_from # None) =>
        LET q   == Unwrap(query)
            lin == VecHit(Unwrap(built_from), q.ray, q.t_min, q.t_max)
        IN  /\ (result = None) <=> (lin = None)
            /\ result # None =>
                /\ Unwrap(result).ray_param = Unwrap(lin).ray_param
                /\ Unwrap(result).hit_position = Unwrap(lin).hit_position
                /\ Unwrap(result).material = Unwrap(lin).material

AbsorbedEndsWalk ==
    [][absorbed => (queries' = queries /\ emit_terms' = emit_terms)]_vars

\* the material of the first hit of the walk never scatters
FirstHitAbsorptive ==
    /\ first_hit # None
    /\ Unwrap(first_hit).material # None
    /\ Unwrap(Unwrap(first_hit).material).kind \in {"Metal", "Dielectric", "Emissive"}

\* C4: when the first hit of the camera ray is on a fully absorptive
\* material, the returned radiance is exactly the emitted radiance of that
\* one hit.
AbsorptiveFirstHitEmitsOnce ==
    (pc = "done" /\ FirstHitAbsorptive) =>
        out_color = Emitted(Unwrap(Unwrap(first_hit).material), Unwrap(first_hit))

\* C5: the sky term sky_color * throughput is part of the returned radiance
\* exactly when the walk ended because a scene query returned no hit.
SkyTermOnlyOnEscape ==
    pc = "done" =>
        out_color = IF exit = "escaped"
                    THEN ColAdd(Unwrap(color_at_exit),
                                ColMul(SkyTexture(ray_to_use.direction), final_attenuation))
                    ELSE Unwrap(color_at_exit)

\* C6: the auxiliary outputs are those of the first surface hit of the walk
\* (its albedo where the material has one); the sky colour, the negated ray
\* direction and depth 0 are returned only when the walk never hit a surface.
FirstHitOutputs ==
    pc = "done" =>
        IF first_hit = None
        THEN /\ out_albedo = Some(SkyTexture(ray_to_use.direction))
             /\ out_normal = Some(VNeg(ray_to_use.direction))
             /\ out_depth = Some(Zero)
        ELSE /\ out_normal = Some(Unwrap(first_hit).normal)
             /\ out_depth = Some(Reciprocal(Unwrap(first_hit).ray_param))
             /\ Unwrap(Unwrap(first_hit).material).kind = "Lambertian" =>
                    out_albedo = Some(Unwrap(Unwrap(first_hit).material).albedo)

\* the buffers a pass leaves behind when the pixels are rendered one after
\* the other from the buffers the pass started with
SequentialPass ==
    [f \in BufferNames |->
        [e \in 1..(NumPixels * 3) |->
            LET i     == (e - 1) \div 3
                start == Unwrap(start_buffers)[f]
            IN  FinalValues(draws[i], f, samples, incremental, frame,
                            [k \in 1..3 |-> start[3 * i + k]])[((e - 1) % 3) + 1]]]

PassComplete == run_pc = "render" /\ \A i \in Pixels : task[i].pc = "done"

\* C7: in a render pass the task of pixel index i touches only elements
\* 3i, 3i+1, 3i+2 of the four buffers, and for fixed draws the buffers after
\* the pass do not depend on the interleaving of the tasks.
TasksOwnTheirChunks ==
    /\ \A a \in accessed : a[3] \in {3 * a[1], 3 * a[1] + 1, 3 * a[1] + 2}
    /\ \A a, b \in accessed : (a[2] = b[2] /\ a[3] = b[3]) => a[1] = b[1]
    /\ PassComplete => Buffers = SequentialPass

\* an incremental pass over buffers that hold an earlier frame is complete
TasksOwnTheirChunksWitness ==
    /\ PassComplete
    /\ incremental
    /\ frame = 2
    /\ Cardinality(accessed) = NumPixels * 12
    /\ color_buffer # ZeroBuffer

\* C8: building a BVH from an empty list (finalise with no object in the
\* list) panics and never yields a tree.
EmptyListPanics ==
    /\ [](built_from # Some(<<>>))
    /\ [][(last_op' = "finalise" /\ objects = <<>>)
            => (panicked' = UnwrapNone /\ bvh' = bvh)]_vars

\* finalise was called on a PathTracer to which no object was added
EmptyListPanicsWitness ==
    /\ last_op = "finalise"
    /\ added = 0
    /\ panicked = UnwrapNone
    /\ bvh = None

SceneReadOnlyAfterFinalise ==
    [][bvh # None =>
        (bvh' # None /\ Range(Unwrap(bvh').objects) = Range(Unwrap(bvh).objects))]_vars

\* every ordering of the elements of a list
Orderings(list) == {[i \in 1..Len(list) |-> list[p[i]]] : p \in IndexOrders(Len(list))}

\* C11: the trees built from any two orderings of the same primitive list
\* answer every query alike: the tree built from any reordering of the list
\* returns None when the queried tree does, and otherwise the same ray_param
\* and the same material.
InsertionOrderInvariant ==
    (query # None /\ built_from # None) =>
        LET q == Unwrap(query)
        IN  \A other \in Orderings(Unwrap(built_from)) :
                \A t \in FromHittables(other) :
                    t # None =>
                        LET r2 == BvhHit(Unwrap(t), q.ray, q.t_min, q.t_max)
                        IN  /\ (r2 = None) <=> (result = None)
                            /\ r2 # None =>
                                /\ Unwrap(r2).ray_param = Unwrap(result).ray_param
                                /\ Unwrap(r2).material = Unwrap(result).material

\* the scene query of this iteration returns a hit without material
HitWithoutMaterial ==
    /\ pc = "loop"
    /\ CurrentHit # None
    /\ Unwrap(CurrentHit).material = None

\* C12 as stated: whenever the scene query returns a hit without material,
\* trace_color panics.
MissingMaterialPanics ==
    [][HitWithoutMaterial => pc' = "panicked"]_vars

\* C12: whenever the scene query returns a hit without material and the walk
\* has not exceeded MAX_BOUNCES, trace_color panics: the hit contributes
\* nothing to the radiance, the throughput or the auxiliary outputs, and no
\* result is returned.
MissingMaterialPanicsBelowCap ==
    /\ [][(HitWithoutMaterial /\ bounces <= MAX_BOUNCES) =>
            /\ pc' = "panicked"
            /\ out_color' = out_color
            /\ final_attenuation' = final_attenuation
            /\ ray_to_use' = ray_to_use
            /\ <<out_albedo', out_normal', out_depth'>> = <<out_albedo, out_normal, out_depth>>]_vars
    /\ [][pc = "panicked" => pc' = "panicked"]_vars

\* a walk that was scattered onto a hit without material and panicked there
MissingMaterialPanicsWitness ==
    /\ pc = "panicked"
    /\ bounces > 1
    /\ SceneHit(scene, ray_to_use) # None
    /\ Unwrap(SceneHit(scene, ray_to_use)).material = None

\* the buffer value v lies in [0, 1]
InUnitRange(v) == 0 <= v.num /\ v.num <= v.den

\* C13: every element of the color buffer and of the albedo buffer, which are
\* zero until render_pixel stores into them, lies in [0, 1].
ColorAndAlbedoInUnitRange ==
    \A e \in 1..(NumPixels * 3) :
        InUnitRange(color_buffer[e]) /\ InUnitRange(albedo_buffer[e])

\* the buffer elements of the slice of job j
SliceElements(j) == {jobs[j].slice.start + k : k \in 0..(jobs[j].slice.len - 1)}

FLe(a, b) == ~IsNaN(a) /\ ~IsNaN(b) /\ a <= b

\* start[i] <= end[i] on each of the three axes
Ordered(bb) ==
    /\ FLe(bb.start.x, bb.end.x)
    /\ FLe(bb.start.y, bb.end.y)
    /\ FLe(bb.start.z, bb.end.z)

\* the box a returned call of AABB::new, Sphere::bounding_box or
\* AABB::surrounding_box produced
ReturnedBox ==
    IF call_fn = "Sphere::bounding_box" THEN Unwrap(Unwrap(call_out)) ELSE Unwrap(call_out)

SomeNumberPerAxis(a, b) ==
    /\ ~(IsNaN(a.x) /\ IsNaN(b.x))
    /\ ~(IsNaN(a.y) /\ IsNaN(b.y))
    /\ ~(IsNaN(a.z) /\ IsNaN(b.z))

Contains(outer, inner) ==
    /\ FLe(outer.start.x, inner.start.x) /\ FLe(inner.end.x, outer.end.x)
    /\ FLe(outer.start.y, inner.start.y) /\ FLe(inner.end.y, outer.end.y)
    /\ FLe(outer.start.z, inner.start.z) /\ FLe(inner.end.z, outer.end.z)

\* C16: surrounding_box(A, B) contains A and B and lies inside every box that
\* contains both; it equals surrounding_box(B, A); and
\* surrounding_box(surrounding_box(A, B), C) = surrounding_box(A, surrounding_box(B, C)).
SurroundingBoxIsJoin ==
    (call_pc = "returned" /\ call_fn = "AABB::surrounding_box") =>
        LET A  == call_args.box1
            B  == call_args.box2
            AB == Unwrap(call_out)
        IN  /\ Contains(AB, A)
            /\ Contains(AB, B)
            /\ \A C \in Boxes : (Contains(C, A) /\ Contains(C, B)) => Contains(C, AB)
            /\ AB = SurroundingBox(B, A)
            /\ \A C \in Boxes : SurroundingBox(AB, C) = SurroundingBox(A, SurroundingBox(B, C))

\* surrounding_box has returned for two boxes neither of which contains the
\* other
SurroundingBoxIsJoinWitness ==
    /\ call_pc = "returned"
    /\ call_fn = "AABB::surrounding_box"
    /\ ~Contains(call_args.box1, call_args.box2)
    /\ ~Contains(call_args.box2, call_args.box1)
    /\ Unwrap(call_out) # call_args.box1
    /\ Unwrap(call_out) # call_args.box2

\* the ray of the call is parallel to a slab of the box and its origin lies
\* strictly outside of that slab
ParallelOutside(bb, r) ==
    \/ r.direction.x = 0 /\ (r.origin.x < bb.start.x \/ r.origin.x > bb.end.x)
    \/ r.direction.y = 0 /\ (r.origin.y < bb.start.y \/ r.origin.y > bb.end.y)
    \/ r.direction.z = 0 /\ (r.origin.z < bb.start.z \/ r.origin.z > bb.end.z)

CrossesOutside(pl, hit) ==
    LET llc == VSub(VSub(pl.center, pl.span_a), pl.span_b)
        rel == VSub(hit.hit_position, llc)
        ca  == Dot(rel, pl.span_a)
        cb  == Dot(rel, pl.span_b)
    IN  \/ ca < 0 \/ ca > 2 * Dot(pl.span_a, pl.span_a)
        \/ cb < 0 \/ cb > 2 * Dot(pl.span_b, pl.span_b)

\* C18: Plane::hit returns None whenever the ray crosses the plane outside of
\* the rectangle.
PlaneRejectsOutside ==
    (call_pc = "returned" /\ call_fn = "Plane::hit" /\ Unwrap(call_out) # None) =>
        ~CrossesOutside(call_args.plane, Unwrap(Unwrap(call_out)))

ZeroVec == Vec3(0, 0, 0)

\* a triangle with coincident vertices or linearly dependent span vectors
DegenerateTriangle(tri) == Cross(VSub(tri.b, tri.a), VSub(tri.c, tri.a)) = ZeroVec

\* the call in progress is a query against degenerate geometry
DegenerateQuery ==
    \/ call_fn = "Triangle::hit" /\ DegenerateTriangle(call_args.tri)
    \/ call_fn \in {"Triangle::hit", "Sphere::hit"} /\ call_args.r.direction = ZeroVec

\* C19: a query against a degenerate triangle, or with a ray of zero-length
\* direction against any primitive, returns None and never a HitResult.
DegenerateGeometryMisses ==
    (call_pc = "returned" /\ DegenerateQuery) => Unwrap(call_out) = None

\* v - 2 (v . n') n' for n' = n / |n|, written without a square root as
\* v - (2 (v . n) / (n . n)) n
ReflectReference(v, n) ==
    RSub(RVec(v), RScale(Frac(2 * Dot(v, n), Dot(n, n)), RVec(n)))

\* positive factors by which a normal is stretched
ScaleFactors == {2, 3, 5}

\* C20: for a non-zero normal n, v.reflect(n) is v - 2 (v . n') n' with n' the
\* unit vector along n, and it is the same for every positive multiple of n.
ReflectUsesUnitNormal ==
    (call_pc = "returned" /\ call_fn = "Vec3::reflect") =>
        /\ Unwrap(call_out) = ReflectReference(call_args.v, call_args.n)
        /\ \A k \in ScaleFactors :
              Reflect(call_args.v, VScale(k, call_args.n)) = Unwrap(call_out)

\* the second case of test_reflect: (-1,-1,0) reflected at the normal (0,2,0)
ReflectUsesUnitNormalWitness ==
    /\ call_pc = "returned"
    /\ call_fn = "Vec3::reflect"
    /\ call_args.v = Vec3(0 - 1, 0 - 1, 0)
    /\ call_args.n = Vec3(0, 2, 0)
    /\ Unwrap(call_out) = RVec(Vec3(0 - 1, 1, 0))

\* C21: a walk accumulates emission for, and attempts to scatter at, at most
\* MAX_BOUNCES surface hits.
WalkProcessesAtMostMaxBounces == emit_terms <= MAX_BOUNCES

\* the primitive's own hit reports a hit whose parameter lies in [t_min, t_max]
HitsWithin(p, r, t_min, t_max) ==
    LET h == PrimHit(p, r, t_min, t_max)
    IN  /\ IsSome(h)
        /\ ~IsNaN(Unwrap(h).ray_param)
        /\ t_min <= Unwrap(h).ray_param
        /\ Unwrap(h).ray_param <= t_max

\* C22: whenever a primitive stored in a tree reports a hit within
\* [t_min, t_max], the bounding-box test of the node that holds it succeeds,
\* so the query of the tree returns a hit.
PruningNeverLosesHit ==
    (call_pc = "returned" /\ call_fn = "BvhTree::hit"
        /\ HitsWithin(call_args.tree.objects[1], call_args.r, call_args.t_min, call_args.t_max))
    => /\ IsSome(AABBHit(call_args.tree.nodes[1].bb, call_args.r, call_args.t_min, call_args.t_max))
       /\ IsSome(Unwrap(call_out))

RECURSIVE SubtreeSize(_, _)
\* the number of primitives below node idx: the length of the list its
\* build_subtree call was given
SubtreeSize(tree, idx) ==
    LET node == tree.nodes[idx + 1]
    IN  IF node.count # 0 THEN node.count
        ELSE SubtreeSize(tree, node.left) + SubtreeSize(tree, node.left + 1)

\* C23: build_subtree turns a list of 1 or 2 primitives into a leaf and splits
\* a list of 3 or more into two non-empty sublists of even length each.
LeafOrEvenSplit ==
    bvh # None =>
        LET tree == Unwrap(bvh)
        IN  \A i \in DOMAIN tree.nodes :
                LET node == tree.nodes[i]
                IN  /\ (SubtreeSize(tree, i - 1) \in {1, 2}) <=> (node.count # 0)
                    /\ node.count = 0 =>
                        /\ SubtreeSize(tree, node.left) > 0
                        /\ SubtreeSize(tree, node.left + 1) > 0
                        /\ SubtreeSize(tree, node.left) % 2 = 0
                        /\ SubtreeSize(tree, node.left + 1) % 2 = 0

\* C24: when hit_node queries the two sides of a node and the first side has
\* returned a hit, the second side is queried with t_max equal to that hit's
\* ray_param.
SecondSideBoundedByFirstHit ==
    (last_op = "hit" /\ bvh # None /\ query # None) =>
        LET tree == Unwrap(bvh)
            q    == Unwrap(query)
        IN  \A i \in DOMAIN tree.nodes :
                LET node     == tree.nodes[i]
                    left_hit == FirstSideHit(tree, i - 1, q.ray, q.t_min, q.t_max)
                IN  (node.count # 1
                        /\ IsSome(AABBHit(node.bb, q.ray, q.t_min, q.t_max))
                        /\ IsSome(left_hit))
                    => SecondSideTMax(left_hit, q.t_max) = Unwrap(left_hit).ray_param

\* the 0-based indices of the object array a leaf references
LeafEntries(node) == {node.left + k : k \in 0..(node.count - 1)}

\* C25: after from_hittables the root is node 0, every count is 0, 1 or 2, the
\* children of an internal node are the adjacent nodes left and left + 1,
\* inside the node array and behind the node itself, a leaf references count
\* entries inside the object array, every primitive of the list is referenced
\* by exactly one leaf, and no query reaches the unreachable arm of hit_node.
TreeWellFormed ==
    bvh # None =>
        LET tree == Unwrap(bvh)
            n    == Len(tree.nodes)
        IN  /\ n >= 1
            /\ SubtreeSize(tree, 0) = Len(Unwrap(built_from))
            /\ SameElements(tree.objects, Unwrap(built_from))
            /\ \A i \in 1..n :
                  LET node == tree.nodes[i]
                  IN  /\ node.count \in {0, 1, 2}
                      /\ node.count = 0 =>
                            /\ node.left > i - 1
                            /\ node.left + 1 <= n - 1
                      /\ node.count # 0 =>
                            LeafEntries(node) \subseteq 0..(Len(tree.objects) - 1)
            /\ \A o \in 0..(Len(tree.objects) - 1) :
                  Cardinality({i \in 1..n : tree.nodes[i].count # 0
                                            /\ o \in LeafEntries(tree.nodes[i])}) = 1
            /\ result # Unreachable

\* a tree with an internal root over three spheres has answered a query
TreeWellFormedWitness ==
    /\ bvh # None
    /\ Len(Unwrap(bvh).nodes) = 3
    /\ Unwrap(bvh).nodes[1].count = 0
    /\ Len(Unwrap(bvh).objects) = 3
    /\ last_op = "hit"
    /\ IsSome(result)

\* this iteration of the loop can scatter: the hit has a material whose
\* scattered() can return Some
CanScatter ==
    /\ pc = "loop"
    /\ CurrentHit # None
    /\ ~(bounces > MAX_BOUNCES)
    /\ Unwrap(CurrentHit).material # None
    /\ \E so \in Scattered(Unwrap(Unwrap(CurrentHit).material), ray_to_use, Unwrap(CurrentHit)) :
            so # None

\* C26: at every bounce that scatters, the incoming ray handed to
\* scattering_pdf is the current ray of the walk, the one that produced the hit.
PdfIncomingIsCurrentRay ==
    CanScatter => PdfIncoming(ray, ray_to_use) = ray_to_use

One == Frac(1, 1)

\* C27: for a unit-length w the axes u, v, w of ONB::from_w(w) are mutually
\* orthogonal and of unit length, so to_local maps unit-length local
\* directions to unit-length directions.
FromWIsOrthonormal ==
    (call_pc = "returned" /\ call_fn = "ONB::from_w") =>
        LET onb == Unwrap(call_out)
        IN  /\ RDot(onb.u, onb.v) = Zero
            /\ RDot(onb.u, onb.w) = Zero
            /\ RDot(onb.v, onb.w) = Zero
            /\ RDot(onb.u, onb.u) = One
            /\ RDot(onb.v, onb.v) = One
            /\ RDot(onb.w, onb.w) = One
            /\ \A n \in UnitVectors : RDot(ToLocal(onb, n), ToLocal(onb, n)) = One

\* the calls of hit on one of the implementations of the trait Hit
HitCalls ==
    {"Sphere::hit", "Plane::hit", "Triangle::hit", "AABB::hit", "BvhTree::hit",
     "ConstantVolume::hit"}

\* C28: a hit returned by an implementation of Hit has a ray_param inside the
\* interval [t_min, t_max] the call was given.
HitsLieInInterval ==
    (call_pc = "returned" /\ call_fn \in HitCalls /\ IsSome(Unwrap(call_out))) =>
        LET t == Unwrap(Unwrap(call_out)).ray_param
        IN  /\ ~IsNaN(t)
            /\ call_args.t_min <= t
            /\ t <= call_args.t_max

\* C29: the hit_position of a returned HitResult is the point
\* origin + ray_param * direction of the ray the call was given.
HitPositionOnRay ==
    (call_pc = "returned" /\ call_fn \in HitCalls /\ IsSome(Unwrap(call_out))) =>
        Unwrap(Unwrap(call_out)).hit_position
            = PointAt(call_args.r, Unwrap(Unwrap(call_out)).ray_param)

\* the colour stored for pixel index i is the mean of the estimates summed in
\* color_sum[i] over k passes
IsMeanOf(i, k) ==
    \A c \in 1..3 : color_buffer[ChunkStart(i) + c] = Frac(color_sum[i][c], k)

\* the pixels whose render_pixel call of the current pass has returned hold
\* the mean of the estimates of the passes frame = 1, ..., frame
MeanAfterStore ==
    (incremental /\ run_pc = "render") =>
        \A i \in Pixels : task[i].pc = "done" => IsMeanOf(i, frame)

\* what one step does to frame: handle_sdl_events resets it to 1 or leaves
\* it, the end of a pass adds 1, every other step leaves it
FrameStep ==
    /\ run_pc = "events" => frame' \in {1, frame}
    /\ (run_pc = "render" /\ run_pc' # "render") => frame' = frame + 1
    /\ run_pc = "spawn" => frame' = frame
    /\ (run_pc = "render" /\ run_pc' = "render") => frame' = frame

\* C30: in incremental mode the colour stored by the call with frame = k is
\* the arithmetic mean of the k estimates since the call with frame = 1, which
\* overwrites the pixel; frame is reset to 1 by camera events, otherwise
\* incremented once per pass, and never below 1.
IncrementalMean ==
    /\ [](frame >= 1 /\ MeanAfterStore)
    /\ [][FrameStep]_vars

\* the second pass has stored the mean of two different estimates, (0,0,0)
\* and (3,1,2) in either order, for pixel 0
IncrementalMeanWitness ==
    /\ incremental
    /\ run_pc = "render"
    /\ frame = 2
    /\ task[0].pc = "done"
    /\ color_sum[0] = <<3, 1, 2>>
    /\ color_buffer[1] = Frac(3, 2)

====
